---- MODULE Spec2Model ----
(***************************************************************************)
(* The run pipeline of the FBG simulator front end:                        *)
(*   gui/main_window.py  ParametersView.validate_params, run_simulation,   *)
(*                       worker_finished, showPlot, the message log        *)
(*   gui/worker.py       WorkerThread.__init__, WorkerThread.run           *)
(* The foreground (the Qt event loop of the main thread) and the worker    *)
(* threads are separate processes of the model.  The worker's signals      *)
(* (progress, finished) are emitted in the worker thread and received by   *)
(* objects of the main thread, so Qt queues them: they are delivered, in   *)
(* order, when the main thread is back in its event loop.                  *)
(***************************************************************************)
EXTENDS Integers, Sequences, FiniteSets, TLC

\* Bounds of the model.
MaxSensors == 2     \* longest list of positions / wavelengths, largest sensor count
MaxThreads == 2     \* WorkerThread objects that may exist at once

None == [kind |-> "None"]

(***************************************************************************)
(* The form.  The two list boxes are read-only QTextEdit widgets filled    *)
(* by add_float_list (values.sort(), one locale.str per line) or cleared,  *)
(* so their lines are in ascending numeric order.  A line is a token; a    *)
(* token with a decimal comma is what locale.str writes for a fractional   *)
(* value under a locale whose decimal point is a comma.                    *)
(***************************************************************************)
Tokens == <<"0", "1", "1,5", "2", "3", "4">>

\* Python's float(str): the value, or ValueError.
float(tok) ==
    CASE tok = "0" -> [ok |-> TRUE, v |-> 0]
      [] tok = "1" -> [ok |-> TRUE, v |-> 1]
      [] tok = "2" -> [ok |-> TRUE, v |-> 2]
      [] tok = "3" -> [ok |-> TRUE, v |-> 3]
      [] tok = "4" -> [ok |-> TRUE, v |-> 4]
      [] OTHER     -> [ok |-> FALSE, v |-> 0]

\* The texts a list box can hold: at most MaxSensors lines, ascending.
ListTexts ==
    LET idx == UNION {[1..k -> 1..Len(Tokens)] : k \in 0..MaxSensors}
        asc == {s \in idx : \A i \in 1..(Len(s) - 1) : s[i] <= s[i + 1]}
    IN  {[i \in 1..Len(s) |-> Tokens[s[i]]] : s \in asc}

FbgLengths == {2}
Tolerances == {1, 3}
MinBandwidths == {1}
MaxBandwidths == {3}
\* StrainTypes and StressTypes, the values the radio buttons of l.133-155 select
StrainTypes == {"NONE", "UNIFORM", "NON_UNIFORM"}
StressTypes == {"NONE", "INCLUDED"}
FilePaths == {"", "sample/strain.txt"}
ExistingFiles == {"sample/strain.txt"}

\* Path(datafile).is_file()
is_file(path) == path \in ExistingFiles

DefaultForm ==
    [fields_parse |-> TRUE,
     strain_type |-> "NONE",
     stress_type |-> "NONE",
     filepath |-> "sample/strain.txt",
     fbg_count |-> 1,
     fbg_length |-> 2,
     tolerance |-> 1,
     min_bandwidth |-> 1,
     max_bandwidth |-> 3,
     fbg_positions |-> <<"0">>,
     original_wavelengths |-> <<"1">>,
     has_reflected_signal |-> TRUE]

\* The messages of the ValueErrors of validate_params.
E_atof == "could not convert string to float"
E_file == "is not a valid data file."
E_positions_count == "Sensors count ({}) and positions count ({}) should be equal."
E_spacing == "Two consecutive FBG positions cannot be shorter than FBG length."
E_below == "At least one wavelength is below the minimum bandwidth setting."
E_above == "At least one wavelength is above the maximum bandwidth setting."
E_wavelengths_count == "Sensors count ({}) and original wavelengths count ({}) must be equal."

ValueError(message) == [raised |-> TRUE, message |-> message, params |-> None]
Return(params) == [raised |-> FALSE, message |-> "", params |-> params]

\* list(map(float, text.split("\n"))), [] for the empty text
parse_list(text) == [i \in 1..Len(text) |-> float(text[i]).v]
parses(text) == \A i \in 1..Len(text) : float(text[i]).ok

\* [right - left for left, right in pairwise(values)]
pairwise_steps(values) ==
    [i \in 1..(IF Len(values) = 0 THEN 0 ELSE Len(values) - 1) |-> values[i + 1] - values[i]]

\* Python's max(values, default=d) and min(values, default=d)
RECURSIVE fold_max(_, _, _)
fold_max(values, i, cur) ==
    IF i > Len(values) THEN cur
    ELSE fold_max(values, i + 1, IF values[i] > cur THEN values[i] ELSE cur)
max(values, default) == IF Len(values) = 0 THEN default ELSE fold_max(values, 2, values[1])
RECURSIVE fold_min(_, _, _)
fold_min(values, i, cur) ==
    IF i > Len(values) THEN cur
    ELSE fold_min(values, i + 1, IF values[i] < cur THEN values[i] ELSE cur)
\* (mutant of min: the largest element is taken instead of the smallest)
min_as_max(values, default) == max(values, default)
min(values, default) == IF Len(values) = 0 THEN default ELSE fold_min(values, 2, values[1])

(***************************************************************************)
(* ParametersView.validate_params, l.444-519.  l.447-476 read the line     *)
(* edits with locale.atof (ValueError on a text that is no number); then   *)
(* the data file, the positions and the wavelengths are checked in turn.   *)
(***************************************************************************)
\* l.484-499: "" when the positions pass, else the ValueError's message
positions_error(form) ==
    IF ~parses(form.fbg_positions) THEN E_atof
    ELSE LET fbg_positions == parse_list(form.fbg_positions)
             steps == pairwise_steps(fbg_positions)
         IN  IF Len(fbg_positions) # form.fbg_count THEN E_positions_count
             ELSE IF min(steps, form.fbg_length) < form.fbg_length THEN E_spacing
             ELSE ""

\* l.501-517: "" when the wavelengths pass, else the ValueError's message
wavelengths_error(form) ==
    IF ~parses(form.original_wavelengths) THEN E_atof
    ELSE LET original_wavelengths == parse_list(form.original_wavelengths)
         IN  IF min(original_wavelengths, form.min_bandwidth) < form.min_bandwidth THEN E_below
             ELSE IF max(original_wavelengths, form.max_bandwidth) > form.max_bandwidth THEN E_above
             ELSE IF Len(original_wavelengths) # form.fbg_count THEN E_wavelengths_count
             ELSE ""

validate_params(form) ==
    IF ~form.fields_parse THEN ValueError(E_atof)
    ELSE IF ~is_file(form.filepath) THEN ValueError(E_file)
    ELSE IF positions_error(form) # "" THEN ValueError(positions_error(form))
    ELSE IF wavelengths_error(form) # "" THEN ValueError(wavelengths_error(form))
    ELSE Return([strain_type |-> form.strain_type,
                 stress_type |-> form.stress_type,
                 fbg_count |-> form.fbg_count,
                 fbg_length |-> form.fbg_length,
                 tolerance |-> form.tolerance,
                 min_bandwidth |-> form.min_bandwidth,
                 max_bandwidth |-> form.max_bandwidth,
                 has_reflected_signal |-> form.has_reflected_signal,
                 filepath |-> form.filepath,
                 fbg_positions |-> parse_list(form.fbg_positions),
                 original_wavelengths |-> parse_list(form.original_wavelengths)])

(***************************************************************************)
(* The forms a request is read from.  validate_params raises at its first  *)
(* failing check, so a field it has not examined by then is left at its    *)
(* DefaultForm value: the forms below vary each field only where the       *)
(* checks before it pass.                                                  *)
(***************************************************************************)
LayoutForms ==
    {[DefaultForm EXCEPT !.fbg_count = n, !.fbg_length = l, !.fbg_positions = p] :
        n \in 1..MaxSensors, l \in FbgLengths, p \in ListTexts}
SpectrumForms ==
    {[f EXCEPT !.original_wavelengths = w, !.min_bandwidth = a, !.max_bandwidth = b] :
        f \in {g \in LayoutForms : positions_error(g) = ""},
        w \in ListTexts, a \in MinBandwidths, b \in MaxBandwidths}
RunForms ==
    {[f EXCEPT !.tolerance = t, !.has_reflected_signal = h] :
        f \in {g \in SpectrumForms : wavelengths_error(g) = ""},
        t \in Tolerances, h \in BOOLEAN}
\* The modes (l.449-450) take no part in the checks of validate_params: they are
\* varied over the forms of the default layout.
ModeForms ==
    {[f EXCEPT !.strain_type = strain, !.stress_type = stress] :
        f \in {g \in RunForms : /\ g.fbg_count = DefaultForm.fbg_count
                                 /\ g.fbg_positions = DefaultForm.fbg_positions
                                 /\ g.original_wavelengths = DefaultForm.original_wavelengths},
        strain \in StrainTypes, stress \in StressTypes}
Forms ==
    {[DefaultForm EXCEPT !.fields_parse = FALSE]}
    \cup {[DefaultForm EXCEPT !.filepath = p] : p \in FilePaths}
    \cup LayoutForms \cup SpectrumForms \cup RunForms \cup ModeForms

(***************************************************************************)
(* State.                                                                  *)
(***************************************************************************)
VARIABLES
    worker,           \* ParametersView.worker: NoWorker (None) or a reference to a WorkerThread
    threads,          \* the WorkerThread objects that exist: reference -> fields and position in run()
    events,           \* the main thread's queue of signal deliveries, oldest first
    progress,         \* the value of the progress bar
    simulation_data,  \* ParametersView.simulation_data
    console,          \* the last line of the message log
    plot,             \* the data the last SpectrumView was opened with
    fg,               \* where the main thread is: "idle" (event loop), in run_simulation before
                      \* l.540, or "exited" (app.exec() has returned and main has ended)
    hist              \* history of the most recent run (not program state)

vars == <<worker, threads, events, progress, simulation_data, console, plot, fg, hist>>

NoWorker == 0
ThreadIds == 1..MaxThreads

\* A line of the log: println(text) and print_error(message), l.426-442.
EmptyLog == [level |-> "", text |-> "", arg |-> ""]
println(text) == [level |-> "info", text |-> text, arg |-> ""]
print_error(message, arg) == [level |-> "ERROR", text |-> message, arg |-> arg]

M_running == "A simulator session is already running."
M_failed == "Simulation has failed, reason: {}"
M_completed == "Simulation completed successfully."
M_no_data == "There is no data to show, please run the simulation first."

\* getattr: whether the object has the attribute
HasAttr(obj, name) == name \in DOMAIN obj

\* WorkerThread.__init__, worker.py l.8-17: the popped keys leave params.
WorkerThread(params) ==
    [pc |-> "l20",
     include_underformed_signal |-> params.has_reflected_signal,
     strain_type |-> params.strain_type,
     stress_type |-> params.stress_type,
     datafile |-> params.filepath,
     params |-> [k \in DOMAIN params \ {"has_reflected_signal", "strain_type", "stress_type",
                                        "filepath"} |-> params[k]],
     error_message |-> ""]

\* The history of a run, reset when a WorkerThread is created: the stages started
\* and completed, the checkpoints emitted, the values the bar has shown, what
\* worker_finished reported.  request is the history of the last request that
\* passed the gate: whether its form met the layout rules (RequestValid), whether
\* it printed an error, whether it created a worker.  selected is the pair of modes
\* of the submitted record, calls the modes each stage was called with.
NewRun(include, request) ==
    [runs |-> TRUE, include |-> include, started |-> <<>>, completed |-> {},
     emitted |-> <<>>, failed |-> FALSE, returned |-> FALSE, handled |-> FALSE,
     errors |-> 0, successes |-> 0, shown |-> <<0, 5>>, request |-> request,
     selected |-> [strain_type |-> "NONE", stress_type |-> "NONE"], calls |-> <<>>]
NoRequest == [made |-> FALSE, valid |-> FALSE, error |-> FALSE, started |-> FALSE]

\* What a record must satisfy for a run: counts equal to the sensor count, spacing
\* of consecutive positions at least the grating length, wavelengths within the
\* band, an existing data file.
LayoutValid(count, length, positions, wavelengths, lo, hi) ==
    /\ Len(positions) = count
    /\ Len(wavelengths) = count
    /\ \A i \in 1..(Len(positions) - 1) : positions[i + 1] - positions[i] >= length
    /\ \A i \in 1..Len(wavelengths) : lo <= wavelengths[i] /\ wavelengths[i] <= hi
RequestValid(form) ==
    /\ form.fields_parse
    /\ form.filepath \in ExistingFiles
    /\ parses(form.fbg_positions)
    /\ parses(form.original_wavelengths)
    /\ LayoutValid(form.fbg_count, form.fbg_length, parse_list(form.fbg_positions),
                   parse_list(form.original_wavelengths), form.min_bandwidth, form.max_bandwidth)

Init ==
    /\ worker = NoWorker
    /\ threads = <<>>
    /\ events = <<>>
    /\ progress = 0
    /\ simulation_data = None
    /\ console = EmptyLog
    /\ plot = None
    /\ fg = "idle"
    /\ hist = [NewRun(FALSE, NoRequest) EXCEPT !.runs = FALSE, !.shown = <<0>>]

Signal(sig, value) == [sig |-> sig, value |-> value]
RECURSIVE emit_all(_, _)
emit_all(queue, values) ==
    IF values = <<>> THEN queue
    ELSE emit_all(Append(queue, Signal("progress", Head(values))), Tail(values))

(***************************************************************************)
(* The worker thread: WorkerThread.run, worker.py l.19-47.                 *)
(***************************************************************************)
ExceptionTexts == {"", "dataset does not cover the sensor array"}
Outcomes ==
    {[raised |-> FALSE, text |-> ""]} \cup {[raised |-> TRUE, text |-> m] : m \in ExceptionTexts}

fgvars == <<worker, progress, simulation_data, console, plot, fg>>

\* The keyword arguments of a stage's call: deformed_fbg (l.32-35) and
\* compute_fbg_shifts_and_widths (l.39-42) are called with the literals
\* StrainTypes.NON_UNIFORM and StressTypes.INCLUDED; the other calls take no mode.
call_args(name) ==
    IF name \in {"deformed_fbg", "compute_fbg_shifts_and_widths"}
    THEN <<[stage |-> name, strain_type |-> "NON_UNIFORM", stress_type |-> "INCLUDED"]>>
    ELSE <<>>

\* (mutant of stage: the checkpoints are emitted before the call's outcome is known)
stage_emit_first(t, at, name, checkpoints, next) ==
    /\ threads[t].pc = at
    /\ \E o \in Outcomes :
        /\ events' = emit_all(events, checkpoints)
        /\ IF o.raised
           THEN /\ threads' = [threads EXCEPT ![t].pc = "return", ![t].error_message = o.text]
                /\ hist' = [hist EXCEPT !.started = Append(@, name), !.calls = @ \o call_args(name), !.failed = TRUE,
                                        !.emitted = @ \o checkpoints]
           ELSE /\ threads' = [threads EXCEPT ![t].pc = next]
                /\ hist' = [hist EXCEPT !.started = Append(@, name), !.calls = @ \o call_args(name),
                                        !.completed = @ \cup {name},
                                        !.emitted = @ \o checkpoints]
    /\ UNCHANGED fgvars

\* One call of the try block and the emits that follow it: the call returns and the
\* checkpoints are emitted, or it raises and l.46-47 store str(err).
stage(t, at, name, checkpoints, next) ==
    /\ threads[t].pc = at
    /\ \E o \in Outcomes :
        IF o.raised
        THEN /\ threads' = [threads EXCEPT ![t].pc = "return", ![t].error_message = o.text]
             /\ hist' = [hist EXCEPT !.started = Append(@, name), !.calls = @ \o call_args(name), !.failed = TRUE]
             /\ UNCHANGED events
        ELSE /\ threads' = [threads EXCEPT ![t].pc = next]
             /\ events' = emit_all(events, checkpoints)
             /\ hist' = [hist EXCEPT !.started = Append(@, name), !.calls = @ \o call_args(name),
                                     !.completed = @ \cup {name},
                                     !.emitted = @ \o checkpoints]
    /\ UNCHANGED fgvars

\* l.20
run_emit13(t) ==
    /\ threads[t].pc = "l20"
    /\ threads' = [threads EXCEPT ![t].pc = "l22"]
    /\ events' = emit_all(events, <<13>>)
    /\ hist' = [hist EXCEPT !.emitted = Append(@, 13)]
    /\ UNCHANGED fgvars

\* l.22
run_construct(t) == stage(t, "l22", "OsaSimulator", <<>>, "l23")

\* l.23-24
run_from_file(t) == stage(t, "l23", "from_file", <<21>>, "l26")

\* (mutant of run_undeformed: the flag is not consulted)
run_undeformed_always(t) == stage(t, "l26", "undeformed_fbg", <<34>>, "l31")

\* l.26-29
run_undeformed(t) ==
    IF threads[t].include_underformed_signal
    THEN stage(t, "l26", "undeformed_fbg", <<34>>, "l31")
    ELSE /\ threads[t].pc = "l26"
         /\ threads' = [threads EXCEPT ![t].pc = "l31"]
         /\ UNCHANGED <<events, hist, fgvars>>

\* l.31
run_emit55(t) ==
    /\ threads[t].pc = "l31"
    /\ threads' = [threads EXCEPT ![t].pc = "l32"]
    /\ events' = emit_all(events, <<55>>)
    /\ hist' = [hist EXCEPT !.emitted = Append(@, 55)]
    /\ UNCHANGED fgvars

\* l.32-37
run_deformed(t) == stage(t, "l32", "deformed_fbg", <<89>>, "l39")

\* l.39-44
run_summary(t) == stage(t, "l39", "compute_fbg_shifts_and_widths", <<100>>, "return")

\* run() has returned: QThread emits finished from the worker thread (connected l.538).
thread_finished(t) ==
    /\ threads[t].pc = "return"
    /\ threads' = [threads EXCEPT ![t].pc = "finished"]
    /\ events' = Append(events, Signal("finished", 0))
    /\ hist' = [hist EXCEPT !.returned = TRUE]
    /\ UNCHANGED fgvars

(***************************************************************************)
(* The foreground: the slots of ParametersView, run by the event loop of   *)
(* the main thread one at a time.                                          *)
(***************************************************************************)
\* (mutant of SlotsQueued: a direct connection runs the slot at the emit)
SlotsDirect == TRUE
\* l.537-538: connect() of a signal emitted in another thread queues the slot call
\* until the main thread is in its event loop.
SlotsQueued == fg = "idle"

\* (mutant of start_run: setValue(5) of l.535 comes before the validation)
start_run_progress_early(form) ==
    LET v == validate_params(form) IN
    /\ simulation_data' = None
    /\ progress' = 5
    /\ IF v.raised
       THEN /\ console' = print_error(v.message, "")
            /\ hist' = [hist EXCEPT !.shown = <<0, 5>>,
                                    !.request = [made |-> TRUE, valid |-> RequestValid(form),
                                                 error |-> TRUE, started |-> FALSE]]
            /\ UNCHANGED <<worker, threads, fg>>
       ELSE /\ ThreadIds \ DOMAIN threads # {}
            /\ LET t == CHOOSE i \in ThreadIds \ DOMAIN threads :
                            \A j \in ThreadIds \ DOMAIN threads : i <= j
               IN  /\ worker' = t
                   /\ threads' = [i \in DOMAIN threads \cup {t} |->
                                    IF i = t THEN WorkerThread(v.params) ELSE threads[i]]
            /\ fg' = "l540"
            /\ hist' = [NewRun(v.params.has_reflected_signal,
                               [made |-> TRUE, valid |-> RequestValid(form),
                                error |-> FALSE, started |-> TRUE])
                         EXCEPT !.selected = [strain_type |-> v.params.strain_type,
                                              stress_type |-> v.params.stress_type]]
            /\ UNCHANGED console
    /\ UNCHANGED <<events, plot>>

\* l.527-539 of run_simulation, the gate passed.  WorkerThread.start() returns at
\* once; l.540 follows in run_simulation_return.
start_run(form) ==
    LET v == validate_params(form) IN
    /\ simulation_data' = None
    /\ IF v.raised
       THEN /\ progress' = 0
            /\ console' = print_error(v.message, "")
            /\ hist' = [hist EXCEPT !.shown = <<0>>,
                                    !.request = [made |-> TRUE, valid |-> RequestValid(form),
                                                 error |-> TRUE, started |-> FALSE]]
            /\ UNCHANGED <<worker, threads, fg>>
       ELSE /\ ThreadIds \ DOMAIN threads # {}
            /\ LET t == CHOOSE i \in ThreadIds \ DOMAIN threads :
                            \A j \in ThreadIds \ DOMAIN threads : i <= j
               IN  /\ worker' = t
                   /\ threads' = [i \in DOMAIN threads \cup {t} |->
                                    IF i = t THEN WorkerThread(v.params) ELSE threads[i]]
            /\ progress' = 5
            /\ fg' = "l540"
            /\ hist' = [NewRun(v.params.has_reflected_signal,
                               [made |-> TRUE, valid |-> RequestValid(form),
                                error |-> FALSE, started |-> TRUE])
                         EXCEPT !.selected = [strain_type |-> v.params.strain_type,
                                              stress_type |-> v.params.stress_type]]
            /\ UNCHANGED console
    /\ UNCHANGED <<events, plot>>

\* (mutant of run_simulation: the gate of l.523-525 is missing)
run_simulation_no_gate ==
    /\ fg = "idle"
    /\ \E form \in Forms : start_run(form)

\* l.521-539
run_simulation ==
    /\ fg = "idle"
    /\ IF worker # NoWorker
       THEN /\ console' = print_error(M_running, "")
            /\ UNCHANGED <<worker, threads, events, progress, simulation_data, plot, fg, hist>>
       ELSE \E form \in Forms : start_run(form)

\* l.540
run_simulation_return ==
    /\ fg = "l540"
    /\ progress' = 8
    /\ fg' = "idle"
    /\ hist' = [hist EXCEPT !.shown = Append(@, 8)]
    /\ UNCHANGED <<worker, threads, events, simulation_data, console, plot>>

\* A queued progress signal is delivered: QProgressBar.setValue (connected l.537).
setValue ==
    /\ SlotsQueued
    /\ events # <<>>
    /\ Head(events).sig = "progress"
    /\ events' = Tail(events)
    /\ progress' = Head(events).value
    /\ hist' = [hist EXCEPT !.shown = Append(@, Head(events).value)]
    /\ UNCHANGED <<worker, threads, simulation_data, console, plot, fg>>

\* (mutant of worker_finished: the results are stored before the error is looked at)
worker_finished_stores_first ==
    /\ SlotsQueued
    /\ events # <<>>
    /\ Head(events).sig = "finished"
    /\ events' = Tail(events)
    /\ worker # NoWorker
    /\ simulation_data' = [params |-> threads[worker].params]
    /\ console' = IF threads[worker].error_message # ""
                  THEN print_error(M_failed, threads[worker].error_message)
                  ELSE println(M_completed)
    /\ hist' = [hist EXCEPT !.handled = TRUE,
                            !.errors = IF threads[worker].error_message # "" THEN 1 ELSE 0,
                            !.successes = IF threads[worker].error_message # "" THEN 0 ELSE 1]
    /\ worker' = NoWorker
    /\ threads' = [i \in DOMAIN threads \ {worker} |-> threads[i]]
    /\ UNCHANGED <<progress, plot, fg>>

\* l.542-550, the slot of the queued finished signal.  A WorkerThread has no
\* attribute data (worker.py l.8-17 and l.19-47 never set one), so l.547 raises
\* AttributeError: the slot ends there, PySide prints the traceback and the event
\* loop goes on.
worker_finished ==
    /\ SlotsQueued
    /\ events # <<>>
    /\ Head(events).sig = "finished"
    /\ events' = Tail(events)
    /\ IF worker = NoWorker
       THEN UNCHANGED <<worker, threads, progress, simulation_data, console, plot, fg, hist>>
       ELSE LET w == threads[worker] IN
            IF w.error_message # ""
            THEN /\ console' = print_error(M_failed, w.error_message)
                 /\ worker' = NoWorker
                 /\ threads' = [i \in DOMAIN threads \ {worker} |-> threads[i]]
                 /\ hist' = [hist EXCEPT !.handled = TRUE, !.errors = @ + 1]
                 /\ UNCHANGED <<progress, simulation_data, plot, fg>>
            ELSE IF ~HasAttr(w, "data")
            THEN /\ hist' = [hist EXCEPT !.handled = TRUE]
                 /\ UNCHANGED <<worker, threads, progress, simulation_data, console, plot, fg>>
            ELSE /\ simulation_data' = [data |-> w.data, params |-> w.params]
                 /\ console' = println(M_completed)
                 /\ worker' = NoWorker
                 /\ threads' = [i \in DOMAIN threads \ {worker} |-> threads[i]]
                 /\ hist' = [hist EXCEPT !.handled = TRUE, !.successes = @ + 1]
                 /\ UNCHANGED <<progress, plot, fg>>

\* l.552-558
showPlot ==
    /\ fg = "idle"
    /\ IF simulation_data = None
       THEN /\ console' = print_error(M_no_data, "")
            /\ UNCHANGED plot
       ELSE /\ plot' = simulation_data
            /\ UNCHANGED console
    /\ UNCHANGED <<worker, threads, events, progress, simulation_data, fg, hist>>

\* l.416-417: the "Clear log" button
clear_log ==
    /\ fg = "idle"
    /\ console # EmptyLog
    /\ console' = EmptyLog
    /\ UNCHANGED <<worker, threads, events, progress, simulation_data, plot, fg, hist>>

\* main.py l.20-23: the window is closed, app.exec() returns and main returns its
\* code at once; neither main nor MainWindow (no closeEvent, l.32-37) looks at the
\* worker or waits for it.
close_window ==
    /\ fg = "idle"
    /\ fg' = "exited"
    /\ UNCHANGED <<worker, threads, events, progress, simulation_data, console, plot, hist>>

\* The worker threads that can take a step: none once the process has ended.
LiveThreads == IF fg = "exited" THEN {} ELSE DOMAIN threads

Next ==
    \/ run_simulation
    \/ run_simulation_return
    \/ setValue
    \/ worker_finished
    \/ showPlot
    \/ clear_log
    \/ close_window
    \/ \E t \in LiveThreads : run_emit13(t)
    \/ \E t \in LiveThreads : run_construct(t)
    \/ \E t \in LiveThreads : run_from_file(t)
    \/ \E t \in LiveThreads : run_undeformed(t)
    \/ \E t \in LiveThreads : run_emit55(t)
    \/ \E t \in LiveThreads : run_deformed(t)
    \/ \E t \in LiveThreads : run_summary(t)
    \/ \E t \in LiveThreads : thread_finished(t)

Spec == Init /\ [][Next]_vars

(***************************************************************************)
(* The claims.                                                             *)
(***************************************************************************)
Range(seq) == {seq[i] : i \in 1..Len(seq)}
Running(t) == threads[t].pc # "finished"

\* C1: at most one worker exists in every reachable state, and a run_simulation
\* request made while a worker exists prints the "already running" notice, creates
\* no worker and leaves the active worker, the progress value and the stored
\* results as they were.
C1_OneRunInFlight ==
    /\ [](Cardinality(DOMAIN threads) <= 1 /\ (worker # NoWorker => worker \in DOMAIN threads))
    /\ [][(worker # NoWorker /\ run_simulation) =>
            /\ console' = print_error(M_running, "")
            /\ UNCHANGED <<worker, threads, progress, simulation_data>>]_vars
\* a request was rejected while the worker's thread was still running
C1_Witness ==
    /\ worker # NoWorker
    /\ worker \in DOMAIN threads
    /\ Running(worker)
    /\ hist.started # <<>>
    /\ console = print_error(M_running, "")

\* C2: once worker_finished has handled a run's completion, successful or failed,
\* no worker is recorded as active (the gate is open for the next request).
C2_GateReleased == hist.handled => worker = NoWorker

\* C3: a run in which a stage raised, whatever the exception's text, is reported
\* by worker_finished with exactly one error message and never as completed.
C3_FailureReportedOnce == (hist.handled /\ hist.failed) => (hist.errors = 1 /\ hist.successes = 0)

\* C4: after a run whose stages all returned, worker_finished has stored the
\* results as the simulation data and reported success, so showPlot has data.
C4_ResultsHandedOver ==
    (hist.handled /\ ~hist.failed) => (simulation_data # None /\ hist.successes = 1)

\* C5: whenever the most recent run ended in failure the stored simulation data is
\* None, and a showPlot then reports "no data" and opens no plot.
C5_NoPartialResult ==
    /\ [](hist.failed => simulation_data = None)
    /\ [][(hist.failed /\ showPlot) =>
            (console' = print_error(M_no_data, "") /\ plot' = plot)]_vars
\* a failed run, some of its stages completed, was handled and showPlot reported no data
C5_Witness ==
    /\ hist.failed
    /\ hist.handled
    /\ "from_file" \in hist.completed
    /\ console = print_error(M_no_data, "")

ExpectedStages(include) ==
    IF include
    THEN <<"OsaSimulator", "from_file", "undeformed_fbg", "deformed_fbg",
           "compute_fbg_shifts_and_widths">>
    ELSE <<"OsaSimulator", "from_file", "deformed_fbg", "compute_fbg_shifts_and_widths">>

\* C6: the stages started in a run are a prefix of Loading (simulator construction,
\* from_file), UndeformedCompute exactly if requested, DeformedCompute,
\* SummaryCompute, each once; all started stages but a failing last one have
\* completed, and a run that returned without failure has run them all.
C6_StageOrder ==
    LET exp == ExpectedStages(hist.include)
        n == Len(hist.started)
    IN  /\ n <= Len(exp)
        /\ hist.started = SubSeq(exp, 1, n)
        /\ hist.completed = {exp[i] : i \in 1..(IF hist.failed THEN n - 1 ELSE n)}
        /\ (hist.returned /\ ~hist.failed) => n = Len(exp)
        /\ hist.failed => n >= 1
\* a run without the undeformed spectrum returned with deformed and summary computed
C6_Witness ==
    /\ hist.runs
    /\ ~hist.include
    /\ hist.returned
    /\ ~hist.failed
    /\ {"deformed_fbg", "compute_fbg_shifts_and_widths"} \subseteq hist.completed

\* C7: the values the progress bar shows from the reset at admission on (0, 5, 8
\* of run_simulation and the worker's 13, 21, 34, 55, 89, 100) never decrease.
C7_ProgressMonotonic ==
    \A i \in 1..Len(hist.shown) : \A j \in i..Len(hist.shown) : hist.shown[i] <= hist.shown[j]
\* a whole run was shown
C7_Witness == hist.shown = <<0, 5, 8, 13, 21, 34, 55, 89, 100>>

\* C8: 21 is reported only after from_file completed, 34 only after the requested
\* undeformed spectrum completed, 89 only after the deformed spectrum completed,
\* 100 only after the summary completed; a run that returned has reported 100
\* exactly if none of its stages raised.
C8_CheckpointsAfterStages ==
    LET em == Range(hist.emitted) IN
    /\ Range(hist.shown) \subseteq em \cup {0, 5, 8}
    /\ 21 \in em => "from_file" \in hist.completed
    /\ 34 \in em => (hist.include /\ "undeformed_fbg" \in hist.completed)
    /\ 89 \in em => "deformed_fbg" \in hist.completed
    /\ 100 \in em => "compute_fbg_shifts_and_widths" \in hist.completed
    /\ hist.returned => (100 \in em <=> ~hist.failed)
\* the summary stage raised after 89 had been shown
C8_Witness ==
    /\ hist.returned
    /\ hist.failed
    /\ "deformed_fbg" \in hist.completed
    /\ 89 \in Range(hist.shown)
    /\ ~(100 \in Range(hist.emitted))

\* C9: every worker that exists was created from a record that passed validation
\* (counts equal to the sensor count, spacing at least the grating length,
\* wavelengths within the band, an existing data file), and a request whose form
\* violates one of these printed an error and created no worker.
C9_OnlyValidatedRecordsRun ==
    /\ \A t \in DOMAIN threads :
          /\ LayoutValid(threads[t].params.fbg_count, threads[t].params.fbg_length,
                         threads[t].params.fbg_positions, threads[t].params.original_wavelengths,
                         threads[t].params.min_bandwidth, threads[t].params.max_bandwidth)
          /\ threads[t].datafile \in ExistingFiles
    /\ hist.request.started => hist.request.valid
    /\ (hist.request.made /\ ~hist.request.valid) =>
          (hist.request.error /\ ~hist.request.started)
\* a worker for two sensors is running its stages
C9_Witness ==
    /\ worker # NoWorker
    /\ worker \in DOMAIN threads
    /\ threads[worker].params.fbg_count = 2
    /\ Len(threads[worker].params.fbg_positions) = 2
    /\ hist.request.started
    /\ hist.started # <<>>

\* C10: no worker exists for a layout with two consecutive positions closer to
\* each other than the tolerance.
C10_ToleranceRejected ==
    \A t \in DOMAIN threads :
        \A i \in 1..(Len(threads[t].params.fbg_positions) - 1) :
            threads[t].params.fbg_positions[i + 1] - threads[t].params.fbg_positions[i]
                >= threads[t].params.tolerance

\* C11: the deformed-spectrum stage and the summary stage are each called with
\* the strain mode and the stress mode of the submitted record.
C11_SelectedModesUsed ==
    \A i \in 1..Len(hist.calls) :
        /\ hist.calls[i].strain_type = hist.selected.strain_type
        /\ hist.calls[i].stress_type = hist.selected.stress_type

\* C12: in every state in which the window has been closed and the process is
\* ending, no worker thread is still running its run.
C12_NoExitWhileRunning ==
    fg = "exited" => \A t \in DOMAIN threads : ~Running(t)

\* C13: when the last request that passed the gate failed validation, no worker is
\* recorded, the progress bar is at 0 (5 and 8 are shown only for a request that
\* created a worker) and the stored results are cleared; the simulation data is
\* not None only if the last such request created a worker whose run was handled
\* without failure.
C13_FailedValidationLeavesNothing ==
    /\ (hist.request.made /\ ~hist.request.started) =>
          /\ worker = NoWorker
          /\ progress = 0
          /\ hist.shown = <<0>>
          /\ simulation_data = None
    /\ (5 \in Range(hist.shown) \/ 8 \in Range(hist.shown)) => hist.request.started
    /\ simulation_data # None => (hist.request.started /\ hist.handled /\ ~hist.failed)
\* a request failed validation after an earlier run had failed and been handled
C13_Witness ==
    /\ hist.runs
    /\ hist.failed
    /\ hist.handled
    /\ hist.request.made
    /\ ~hist.request.started
    /\ hist.request.error
    /\ console.level = "ERROR"
    /\ console.text = E_spacing
    /\ progress = 0

====
